---- MODULE Spec2Model ----
(***************************************************************************)
(* Whittle: the dictionary lifecycle engine of whittle/src/managers/       *)
(* dictionary_manager.py (extractor, classifier, writer, manager ledger),  *)
(* the case directory tree of file_path_manager.py, the plugin registry    *)
(* and the solver factory, the mesh executor, the turn history of          *)
(* conversation_manager.py, and the command line of whittle/cli.py with    *)
(* the session of whittle/src/ai_assistant.py.                             *)
(*                                                                         *)
(* The modules are taken as loaded and their functions modelled as         *)
(* written.  (interfaces/solver_managers.py and managers/solver_factory.py *)
(* import IDictionaryManager, which interfaces/dictionary_interfaces.py    *)
(* does not define; the name is used as a field annotation only.)          *)
(*                                                                         *)
(* A text is a sequence of tokens (strings).  The tokens are the units the *)
(* regular expressions of the extractor tell apart: the fence of three     *)
(* backquotes, the newline, the blank, ";", ".", runs of word characters   *)
(* (\w+, here always letters) and payload tokens that hold neither a fence *)
(* nor a word.                                                             *)
(***************************************************************************)
EXTENDS Naturals, Sequences, FiniteSets, TLC

VARIABLES
    required_files,   \* DictionaryManager.required_files: name -> BOOLEAN
    written_files,    \* DictionaryManager.written_files: set of names
    files,            \* the case directory: <<dir, name>> -> content, for the files that exist
    raised,           \* whether the last call of the specification ended in an exception
    committed,        \* SpecReply: the names the process_ai_response call wrote before it ended
    reply,            \* SpecReply: the structured reply whose rendering is processed
    dictionaries,     \* SpecReply: the result of extract_dictionaries on the rendered reply
    phase,            \* SpecReply: "text" | "extracted" | "processed"
    call,             \* SpecWriter: the last classifier / writer call, its result, and
                      \* whether the file it wrote existed before
    latest,           \* SpecWriter: <<dir, name>> -> content of the most recent write there
    dirs,             \* the case directory tree: node -> "absent" | "dir" | "file"
    registry,         \* PluginRegistry._plugins: solver id -> plugin class, in insertion order
    pc,               \* SpecCli: where the process stands: "main" | "AWAITING_REPLY" |
                      \* "AWAITING_INPUT" | "EXITED"
    args,             \* SpecCli: the command line and the credential sources of the run
    env,              \* os.environ["OPENAI_API_KEY"], "" when unset
    turn,             \* SpecCli: what the last step of the session did
    exit_code,        \* SpecCli: <<>> while the process runs, <<status>> once it has exited
    managers,         \* whether a manager bundle has been constructed
    messages          \* SpecConversation: OpenAIConversationManager.messages, the turn
                      \* history; <<>> while no conversation manager exists

\* the variables outside the dictionary engine
appvars == <<dirs, registry, pc, args, env, turn, exit_code, managers, messages>>

vars == <<required_files, written_files, files, raised, committed,
          reply, dictionaries, phase, call, latest,
          dirs, registry, pc, args, env, turn, exit_code, managers, messages>>

----------------------------------------------------------------------------
(* Bounds *)

\* blocks per reply
MaxBlocks == 2
\* distinct payloads a block body can carry
MaxBodies == 2

----------------------------------------------------------------------------
(* Tokens *)

\* the fence of three backquotes
FENCE == "<fence>"
NL == "\n"
SP == " "
SEMI == ";"
DOT == "."
OBJECT == "object"

\* OpenFOAMPlugin.solver_name
solver_name == "openfoam"

\* the names a block can declare in this model; "alpha.water" is two \w+ runs
\* around a "."
NameParts(n) == IF n = "alpha.water" THEN <<"alpha", DOT, "water">>
                ELSE IF n = "alpha.air" THEN <<"alpha", DOT, "air">>
                ELSE <<n>>

\* the key order of DictionaryManager.required_files (dict insertion order)
RequiredOrder ==
    <<"controlDict", "fvSchemes", "fvSolution", "blockMeshDict",
      "snappyHexMeshDict", "U", "p">>

RequiredNames == {RequiredOrder[i] : i \in 1..Len(RequiredOrder)}

\* runs of [a-zA-Z] that occur in the texts of the model: every \w+ run of
\* the model is made of letters only
LetterRuns ==
    RequiredNames \cup
    {"k", "epsilon", "omega", "nut", "alpha", "water", "air",
     "transportProperties", "turbulenceProperties", "openfoam", "python", OBJECT}

IsWord(t) == t \in LetterRuns
IsLetters(t) == t \in LetterRuns
IsSpace(t) == t \in {SP, NL}

Payload(b) == IF b = 1 THEN "// 1" ELSE IF b = 2 THEN "// 2" ELSE "// 3"

----------------------------------------------------------------------------
(* Replies: the structured inputs, and the text each stands for *)

NoDecl == "<none>"

\* a block [tag, decl, body]: FENCE tag NL (object decl; NL)? payload NL FENCE NL
BodyOf(blk) ==
    (IF blk.decl = NoDecl THEN <<>>
     ELSE <<OBJECT, SP>> \o NameParts(blk.decl) \o <<SEMI, NL>>)
    \o <<Payload(blk.body), NL>>

RenderBlock(blk) ==
    <<FENCE>> \o (IF blk.tag = "" THEN <<>> ELSE <<blk.tag>>) \o <<NL>>
    \o BodyOf(blk) \o <<FENCE, NL>>

RECURSIVE Render(_)
Render(r) == IF r = <<>> THEN <<>> ELSE RenderBlock(Head(r)) \o Render(Tail(r))

BlocksOf(tags, decls, bodies) ==
    [tag : tags, decl : decls, body : bodies]

SeqsUpTo(S, n) == UNION {[1..k -> S] : k \in 0..n}

\* Spec: what the blocks of a session reply declare: every ledger key, a name
\* outside the ledger, a dotted name, or nothing
SessionDecls == RequiredNames \cup {"transportProperties", "alpha.water", NoDecl}

SessionReplies == SeqsUpTo(BlocksOf({solver_name}, SessionDecls, {1}), MaxBlocks)

SessionTexts == {Render(r) : r \in SessionReplies}

\* SpecReply: the fence tags and the declarations of a reply
Tags == {solver_name, "python", ""}

ReplyDecls == {"controlDict", "U", "alpha.water", NoDecl}

AllBlocks == BlocksOf(Tags, ReplyDecls, 1..MaxBodies)

Replies == SeqsUpTo(AllBlocks, MaxBlocks)

----------------------------------------------------------------------------
(* FoamDictionaryExtractor *)

NoMatch == ""

\* \s+ : the first index at or after j that holds no white space
RECURSIVE SkipSpace(_, _)
SkipSpace(c, j) ==
    IF j <= Len(c) /\ IsSpace(c[j]) THEN SkipSpace(c, j + 1) ELSE j

\* object\s+(\w+); matched with "object" at index i of c
MatchObjectAt(c, i) ==
    /\ c[i] = OBJECT
    /\ i + 1 <= Len(c)
    /\ IsSpace(c[i + 1])
    /\ LET j == SkipSpace(c, i + 1)
       IN /\ j + 1 <= Len(c)
          /\ IsWord(c[j])
          /\ c[j + 1] = SEMI

\* re.search(r"object\s+(\w+);", content): group 1 of the leftmost match
RECURSIVE SearchObjectFrom(_, _)
SearchObjectFrom(c, i) ==
    IF i > Len(c) THEN NoMatch
    ELSE IF MatchObjectAt(c, i) THEN c[SkipSpace(c, i + 1)]
    ELSE SearchObjectFrom(c, i + 1)

re_search_object(c) == SearchObjectFrom(c, 1)

\* length of the opening fence matched at index i, 0 if none:
\* "solver": FENCE solver_name NL        "any": FENCE [a-zA-Z]* NL
OpenLen(mode, t, i) ==
    IF t[i] # FENCE THEN 0
    ELSE IF mode = "solver"
         THEN IF i + 2 <= Len(t) /\ t[i + 1] = solver_name /\ t[i + 2] = NL
              THEN 3 ELSE 0
         ELSE IF i + 1 <= Len(t) /\ t[i + 1] = NL THEN 2
              ELSE IF i + 2 <= Len(t) /\ IsLetters(t[i + 1]) /\ t[i + 2] = NL
                   THEN 3 ELSE 0

\* the index of the first fence at or after i, 0 if none: where (.*?) ends
RECURSIVE NextFence(_, _)
NextFence(t, i) ==
    IF i > Len(t) THEN 0
    ELSE IF t[i] = FENCE THEN i
    ELSE NextFence(t, i + 1)

\* re.finditer(pattern, content, re.DOTALL): group 1 of the matches, left to
\* right, none overlapping
RECURSIVE FindIter(_, _, _)
FindIter(mode, t, i) ==
    IF i > Len(t) THEN <<>>
    ELSE LET l == OpenLen(mode, t, i)
             close == IF l = 0 THEN 0 ELSE NextFence(t, i + l)
         IN IF close = 0 THEN FindIter(mode, t, i + 1)
            ELSE <<SubSeq(t, i + l, close - 1)>> \o FindIter(mode, t, close + 1)

\* a Python dict as the sequence of its items in insertion order
DictHas(d, k) == \E i \in 1..Len(d) : d[i].name = k
DictGet(d, k) == d[CHOOSE i \in 1..Len(d) : d[i].name = k].content
DictKeys(d) == {d[i].name : i \in 1..Len(d)}

\* dictionaries[dict_name] = content
DictSet(d, k, v) ==
    IF DictHas(d, k)
    THEN [i \in 1..Len(d) |-> IF d[i].name = k THEN [name |-> k, content |-> v] ELSE d[i]]
    ELSE Append(d, [name |-> k, content |-> v])

\* the loop ending at the first block without a declaration
RECURSIVE CollectUntilUnnamed(_, _, _)
CollectUntilUnnamed(matches, i, d) ==
    IF i > Len(matches) THEN d
    ELSE LET content == matches[i]
             dict_name == re_search_object(content)
         IN IF dict_name = NoMatch THEN d
            ELSE CollectUntilUnnamed(matches, i + 1, DictSet(d, dict_name, content))

RECURSIVE CollectNamed(_, _, _)
CollectNamed(matches, i, d) ==
    IF i > Len(matches) THEN d
    ELSE LET content == matches[i]
             dict_name == re_search_object(content)
         IN CollectNamed(matches, i + 1,
                         IF dict_name # NoMatch THEN DictSet(d, dict_name, content) ELSE d)

extract_dictionaries(content) ==
    LET specific == FindIter("solver", content, 1)
        matches == IF specific = <<>> THEN FindIter("any", content, 1) ELSE specific
    IN CollectNamed(matches, 1, <<>>)

----------------------------------------------------------------------------
(* OpenFOAMDictionaryClassifier, OpenFOAMFilePathManager *)

DictionaryType == {"SYSTEM", "CONSTANT", "INITIAL_CONDITION", "UNKNOWN"}

system_files ==
    {"blockMeshDict", "snappyHexMeshDict", "controlDict", "fvSchemes", "fvSolution"}

initial_condition_files ==
    {"U", "p", "k", "epsilon", "omega", "nut", "alpha.water", "alpha.air"}

\* get_dictionary_type with UNKNOWN as the catch-all
get_dictionary_type_unknown(dict_name) ==
    IF dict_name \in system_files THEN "SYSTEM"
    ELSE IF dict_name \in initial_condition_files THEN "INITIAL_CONDITION"
    ELSE "UNKNOWN"

get_dictionary_type(dict_name) ==
    IF dict_name \in system_files THEN "SYSTEM"
    ELSE IF dict_name \in initial_condition_files THEN "INITIAL_CONDITION"
    ELSE "CONSTANT"

get_system_dir == "system"
get_constant_dir == "constant"
get_zero_dir == "0"

\* get_target_directory with the zero directory left out
get_target_directory_flat(dict_type) ==
    IF dict_type = "SYSTEM" THEN get_system_dir ELSE get_constant_dir

get_target_directory(dict_type) ==
    IF dict_type = "SYSTEM" THEN get_system_dir
    ELSE IF dict_type = "INITIAL_CONDITION" THEN get_zero_dir
    ELSE get_constant_dir

----------------------------------------------------------------------------
(* OpenFOAMDictionaryWriter *)

\* write_text opening the file for appending
write_text_append(fs, file_path, content) ==
    [q \in (DOMAIN fs) \cup {file_path} |->
        IF q = file_path
        THEN (IF q \in DOMAIN fs THEN fs[q] ELSE <<>>) \o content
        ELSE fs[q]]

\* Path.write_text: open for writing (create or truncate), write, close
write_text(fs, file_path, content) ==
    [q \in (DOMAIN fs) \cup {file_path} |-> IF q = file_path THEN content ELSE fs[q]]

write_dictionary(fs, name, content, dict_type) ==
    LET target_dir == get_target_directory(dict_type)
        file_path == <<target_dir, name>>
    IN write_text(fs, file_path, content)

----------------------------------------------------------------------------
(* DictionaryManager *)

\* the state a process_ai_response call works on
ManagerState(rf, wf, fs) ==
    [required_files |-> rf, written_files |-> wf, files |-> fs,
     raised |-> FALSE, committed |-> {}]

\* the loop marking the file of a failed write as not written
RECURSIVE ProcessItemsResetOnFail(_, _, _, _)
ProcessItemsResetOnFail(st, d, i, failAt) ==
    IF i > Len(d) THEN st
    ELSE LET name == d[i].name
             content == d[i].content
             dict_type == get_dictionary_type(name)
         IN IF i = failAt
            THEN [st EXCEPT !.raised = TRUE,
                            !.required_files =
                                IF name \in DOMAIN st.required_files
                                THEN [st.required_files EXCEPT ![name] = FALSE]
                                ELSE st.required_files]
            ELSE ProcessItemsResetOnFail(
                   [st EXCEPT
                      !.files = write_dictionary(st.files, name, content, dict_type),
                      !.written_files = st.written_files \cup {name},
                      !.required_files =
                          IF name \in DOMAIN st.required_files
                          THEN [st.required_files EXCEPT ![name] = TRUE]
                          ELSE st.required_files,
                      !.committed = st.committed \cup {name}],
                   d, i + 1, failAt)

\* the loop with the ledger updated in one batch after the last write
RECURSIVE WriteItems(_, _, _, _)
WriteItems(st, d, i, failAt) ==
    IF i > Len(d) THEN st
    ELSE IF i = failAt THEN [st EXCEPT !.raised = TRUE]
    ELSE WriteItems(
           [st EXCEPT
              !.files = write_dictionary(st.files, d[i].name, d[i].content,
                                         get_dictionary_type(d[i].name)),
              !.committed = st.committed \cup {d[i].name}],
           d, i + 1, failAt)

ProcessItemsBatched(st, d, i, failAt) ==
    LET w == WriteItems(st, d, i, failAt)
    IN IF w.raised THEN w
       ELSE [w EXCEPT
               !.written_files = st.written_files \cup w.committed,
               !.required_files =
                   [n \in DOMAIN st.required_files |->
                       st.required_files[n] \/ n \in w.committed]]

\* the loop going on to the next item after a write that raised
RECURSIVE ProcessItemsSkipFailed(_, _, _, _)
ProcessItemsSkipFailed(st, d, i, failAt) ==
    IF i > Len(d) THEN st
    ELSE IF i = failAt
    THEN ProcessItemsSkipFailed([st EXCEPT !.raised = TRUE], d, i + 1, failAt)
    ELSE ProcessItemsSkipFailed(
           [st EXCEPT
              !.files = write_dictionary(st.files, d[i].name, d[i].content,
                                         get_dictionary_type(d[i].name)),
              !.written_files = st.written_files \cup {d[i].name},
              !.required_files =
                  IF d[i].name \in DOMAIN st.required_files
                  THEN [st.required_files EXCEPT ![d[i].name] = TRUE]
                  ELSE st.required_files,
              !.committed = st.committed \cup {d[i].name}],
           d, i + 1, failAt)

\* the loop setting the ledger entry of every name written, a ledger key or
\* not
RECURSIVE ProcessItemsAnyKey(_, _, _, _)
ProcessItemsAnyKey(st, d, i, failAt) ==
    IF i > Len(d) THEN st
    ELSE IF i = failAt THEN [st EXCEPT !.raised = TRUE]
    ELSE ProcessItemsAnyKey(
           [st EXCEPT
              !.files = write_dictionary(st.files, d[i].name, d[i].content,
                                         get_dictionary_type(d[i].name)),
              !.written_files = st.written_files \cup {d[i].name},
              !.required_files =
                  [n \in DOMAIN st.required_files \cup {d[i].name} |->
                      IF n = d[i].name THEN TRUE ELSE st.required_files[n]],
              !.committed = st.committed \cup {d[i].name}],
           d, i + 1, failAt)

\* the loop recording in written_files only the names the ledger tracks
RECURSIVE ProcessItemsLedgerNames(_, _, _, _)
ProcessItemsLedgerNames(st, d, i, failAt) ==
    IF i > Len(d) THEN st
    ELSE IF i = failAt THEN [st EXCEPT !.raised = TRUE]
    ELSE ProcessItemsLedgerNames(
           [st EXCEPT
              !.files = write_dictionary(st.files, d[i].name, d[i].content,
                                         get_dictionary_type(d[i].name)),
              !.written_files =
                  IF d[i].name \in DOMAIN st.required_files
                  THEN st.written_files \cup {d[i].name}
                  ELSE st.written_files,
              !.required_files =
                  IF d[i].name \in DOMAIN st.required_files
                  THEN [st.required_files EXCEPT ![d[i].name] = TRUE]
                  ELSE st.required_files,
              !.committed = st.committed \cup {d[i].name}],
           d, i + 1, failAt)

\* the loop over dictionaries.items() from item i on; the write of item
\* failAt raises (the file cannot be opened) and the exception ends the call
RECURSIVE ProcessItems(_, _, _, _)
ProcessItems(st, d, i, failAt) ==
    IF i > Len(d) THEN st
    ELSE LET name == d[i].name
             content == d[i].content
             dict_type == get_dictionary_type(name)
         IN IF i = failAt THEN [st EXCEPT !.raised = TRUE]
            ELSE ProcessItems(
                   [st EXCEPT
                      !.files = write_dictionary(st.files, name, content, dict_type),
                      !.written_files = st.written_files \cup {name},
                      !.required_files =
                          IF name \in DOMAIN st.required_files
                          THEN [st.required_files EXCEPT ![name] = TRUE]
                          ELSE st.required_files,
                      !.committed = st.committed \cup {name}],
                   d, i + 1, failAt)

\* process_ai_response(response) on a manager with fields rf, wf and the
\* disk fs; extracted is self.extractor.extract_dictionaries(response), which
\* the calling action evaluates once for all outcomes of the writes
process_ai_response(rf, wf, fs, extracted, failAt) ==
    ProcessItems(ManagerState(rf, wf, fs), extracted, 1, failAt)

\* the replies of a session, each with self.extractor.extract_dictionaries of
\* it, computed once for each text
SessionInputs ==
    {[response |-> t, dictionaries |-> extract_dictionaries(t)] : t \in SessionTexts}

MeshPair == "blockMeshDict or snappyHexMeshDict"

\* get_missing_required_files without the break after the combined entry
RECURSIVE MissingNoBreak(_, _)
MissingNoBreak(rf, i) ==
    IF i > Len(RequiredOrder) THEN <<>>
    ELSE LET name == RequiredOrder[i]
         IN IF name \in {"blockMeshDict", "snappyHexMeshDict"}
            THEN IF ~(rf["blockMeshDict"] \/ rf["snappyHexMeshDict"])
                 THEN <<MeshPair>> \o MissingNoBreak(rf, i + 1)
                 ELSE MissingNoBreak(rf, i + 1)
            ELSE IF ~rf[name] THEN <<name>> \o MissingNoBreak(rf, i + 1)
                 ELSE MissingNoBreak(rf, i + 1)

get_missing_no_break(rf) == MissingNoBreak(rf, 1)

\* get_missing_required_files asking for both mesh dictionaries (and for or)
RECURSIVE MissingBothMesh(_, _)
MissingBothMesh(rf, i) ==
    IF i > Len(RequiredOrder) THEN <<>>
    ELSE LET name == RequiredOrder[i]
         IN IF name \in {"blockMeshDict", "snappyHexMeshDict"}
            THEN IF ~(rf["blockMeshDict"] /\ rf["snappyHexMeshDict"])
                 THEN <<MeshPair>>
                 ELSE MissingBothMesh(rf, i + 1)
            ELSE IF ~rf[name] THEN <<name>> \o MissingBothMesh(rf, i + 1)
                 ELSE MissingBothMesh(rf, i + 1)

get_missing_both_mesh(rf) == MissingBothMesh(rf, 1)

\* the loop of get_missing_required_files from key i on; break ends it
RECURSIVE MissingFrom(_, _)
MissingFrom(rf, i) ==
    IF i > Len(RequiredOrder) THEN <<>>
    ELSE LET name == RequiredOrder[i]
             written == rf[name]
         IN IF name \in {"blockMeshDict", "snappyHexMeshDict"}
            THEN IF ~(rf["blockMeshDict"] \/ rf["snappyHexMeshDict"])
                 THEN <<MeshPair>>
                 ELSE MissingFrom(rf, i + 1)
            ELSE IF ~written THEN <<name>> \o MissingFrom(rf, i + 1)
                 ELSE MissingFrom(rf, i + 1)

\* get_missing_required_files going through the keys from the last to the
\* first
get_missing_reversed(rf) ==
    LET m == MissingFrom(rf, 1)
    IN [i \in 1..Len(m) |-> m[Len(m) + 1 - i]]

\* the loop with a break that leaves the mesh pair out of the list
RECURSIVE MissingSilentBreak(_, _)
MissingSilentBreak(rf, i) ==
    IF i > Len(RequiredOrder) THEN <<>>
    ELSE LET name == RequiredOrder[i]
         IN IF name \in {"blockMeshDict", "snappyHexMeshDict"}
            THEN IF ~(rf["blockMeshDict"] \/ rf["snappyHexMeshDict"])
                 THEN <<>>
                 ELSE MissingSilentBreak(rf, i + 1)
            ELSE IF ~rf[name] THEN <<name>> \o MissingSilentBreak(rf, i + 1)
                 ELSE MissingSilentBreak(rf, i + 1)

get_missing_silent_break(rf) == MissingSilentBreak(rf, 1)

get_missing_required_files(rf) == MissingFrom(rf, 1)

----------------------------------------------------------------------------
(* The case directory tree (OpenFOAMFilePathManager) *)

\* the directory that holds the case directory; it exists
ROOT == "/"
CASE_DIR == "case_dir"
TRISURFACE == "triSurface"

\* self.case_dir, self.system_dir, self.constant_dir, self.zero_dir and
\* self.constant_dir / "triSurface"
DirNodes == {CASE_DIR, "system", "constant", "0", TRISURFACE}

\* the four directories ensure_directories_exist creates
CaseDirs == {"system", "constant", "0", TRISURFACE}

Parent(node) ==
    IF node = CASE_DIR THEN ROOT
    ELSE IF node = TRISURFACE THEN "constant"
    ELSE CASE_DIR

KindOf(d, node) == IF node = ROOT THEN "dir" ELSE d[node]

\* Path.mkdir that passes every error of os.mkdir on (exist_ok unheeded)
RECURSIVE mkdir_strict(_, _, _, _, _)
mkdir_strict(d, node, parents, exist_ok, denied) ==
    LET pk == KindOf(d, Parent(node))
    IN IF pk = "absent"
       THEN IF ~parents THEN [dirs |-> d, raised |-> TRUE]
            ELSE LET up == mkdir_strict(d, Parent(node), TRUE, TRUE, denied)
                 IN IF up.raised THEN up
                    ELSE mkdir_strict(up.dirs, node, FALSE, exist_ok, denied)
       ELSE IF pk = "file" THEN [dirs |-> d, raised |-> TRUE]
       ELSE IF d[node] # "absent" THEN [dirs |-> d, raised |-> TRUE]
       ELSE IF denied THEN [dirs |-> d, raised |-> TRUE]
       ELSE [dirs |-> [d EXCEPT ![node] = "dir"], raised |-> FALSE]

\* Path.mkdir(parents=parents, exist_ok=exist_ok) of pathlib on the tree d:
\* os.mkdir raises FileNotFoundError when the parent is absent (with parents
\* the parent is made first, then the node), NotADirectoryError when the
\* parent is a regular file, FileExistsError when the node exists (swallowed
\* when exist_ok and the node is a directory), PermissionError when the
\* parent cannot be written (denied)
RECURSIVE mkdir(_, _, _, _, _)
mkdir(d, node, parents, exist_ok, denied) ==
    LET pk == KindOf(d, Parent(node))
    IN IF pk = "absent"
       THEN IF ~parents THEN [dirs |-> d, raised |-> TRUE]
            ELSE LET up == mkdir(d, Parent(node), TRUE, TRUE, denied)
                 IN IF up.raised THEN up
                    ELSE mkdir(up.dirs, node, FALSE, exist_ok, denied)
       ELSE IF pk = "file" THEN [dirs |-> d, raised |-> TRUE]
       ELSE IF d[node] # "absent"
            THEN [dirs |-> d, raised |-> ~(exist_ok /\ d[node] = "dir")]
       ELSE IF denied THEN [dirs |-> d, raised |-> TRUE]
       ELSE [dirs |-> [d EXCEPT ![node] = "dir"], raised |-> FALSE]

\* ensure_directories_exist that creates nothing and reports success
ensure_directories_skip(d, denied) == [dirs |-> d, raised |-> FALSE]

\* OpenFOAMFilePathManager.ensure_directories_exist(): the four mkdir calls
\* in order, the first exception ending the call
ensure_directories_exist(d, denied) ==
    LET a == mkdir(d, "system", TRUE, TRUE, denied)
    IN IF a.raised THEN a
       ELSE LET b == mkdir(a.dirs, "constant", TRUE, TRUE, denied)
            IN IF b.raised THEN b
               ELSE LET c == mkdir(b.dirs, "0", FALSE, TRUE, denied)
                    IN IF c.raised THEN c
                       ELSE mkdir(c.dirs, TRISURFACE, FALSE, TRUE, denied)

\* a case directory with the four directories in place
PopulatedDirs == [n \in DirNodes |-> "dir"]

\* a case directory that exists and is empty
EmptyCaseDirs == [n \in DirNodes |-> IF n = CASE_DIR THEN "dir" ELSE "absent"]

AllFour(d) == \A n \in CaseDirs : d[n] = "dir"

----------------------------------------------------------------------------
(* The plugin registry and the solver factory *)

\* str.lower() on the strings the model uses
Lower(s) ==
    CASE s = "OpenFOAM" -> "openfoam"
      [] s = "SU2" -> "su2"
      [] s = "Fluent" -> "fluent"
      [] s = "Done" -> "done"
      [] s = "DONE" -> "done"
      [] s = "Run" -> "run"
      [] s = "RUN" -> "run"
      [] OTHER -> s

OpenFOAMPlugin == "OpenFOAMPlugin"

\* the plugin classes handed to register_plugin: the one of the repository
\* and two more of the kind plugins/__init__.py provides for
PluginClasses == {OpenFOAMPlugin, "SU2Plugin", "FluentPlugin"}

\* plugin_class().solver_name
SolverNameOf(plugin_class) ==
    CASE plugin_class = OpenFOAMPlugin -> solver_name
      [] plugin_class = "SU2Plugin" -> "SU2"
      [] plugin_class = "FluentPlugin" -> "fluent"

\* the fields of the SolverManagers dataclass
ManagerFields == {"prompt_manager", "conversation_manager", "dictionary_manager",
                  "path_manager", "mesh_executor"}

NoBundle == <<>>

\* plugin.create_managers(...): a SolverManagers with its five fields set
plugin_create_managers(plugin_class) ==
    IF plugin_class = OpenFOAMPlugin
    THEN [prompt_manager |-> "DefaultPromptManager",
          conversation_manager |-> "OpenAIConversationManager",
          dictionary_manager |-> "DictionaryManager",
          path_manager |-> "OpenFOAMFilePathManager",
          mesh_executor |-> "MeshExecutor"]
    ELSE [f \in ManagerFields |-> <<plugin_class, f>>]

\* PluginRegistry.register_plugin(plugin_class) on the dict reg
register_plugin(reg, plugin_class) ==
    DictSet(reg, Lower(SolverNameOf(plugin_class)), plugin_class)

\* PluginRegistry.available_solvers(): list(cls._plugins.keys())
available_solvers(reg) == [i \in 1..Len(reg) |-> reg[i].name]

\* ", ".join(names)
RECURSIVE JoinComma(_)
JoinComma(names) ==
    IF Len(names) = 0 THEN <<>>
    ELSE IF Len(names) = 1 THEN names
    ELSE <<Head(names), ", ">> \o JoinComma(Tail(names))

NoPlugin == ""

\* get_plugin with a message that names the solver only
get_plugin_unlisted(reg, name) ==
    IF ~DictHas(reg, Lower(name))
    THEN [raised |-> TRUE, registry |-> reg, plugin |-> NoPlugin,
          error |-> <<"No plugin found for solver '", name, "'.">>]
    ELSE [raised |-> FALSE, registry |-> reg, plugin |-> DictGet(reg, Lower(name)),
          error |-> <<>>]

\* PluginRegistry.get_plugin(solver_name): the plugin instance, or ValueError
\* with the message of lines 21-24 (a sequence of its parts)
get_plugin(reg, name) ==
    IF ~DictHas(reg, Lower(name))
    THEN [raised |-> TRUE, registry |-> reg, plugin |-> NoPlugin,
          error |-> <<"No plugin found for solver '", name,
                      "'. Available solvers: ">> \o JoinComma(available_solvers(reg))]
    ELSE [raised |-> FALSE, registry |-> reg, plugin |-> DictGet(reg, Lower(name)),
          error |-> <<>>]

\* SolverFactory.create_managers(solver_name, ...)
create_managers(reg, name) ==
    LET g == get_plugin(reg, name)
    IN IF g.raised
       THEN [raised |-> TRUE, registry |-> g.registry, error |-> g.error,
             bundle |-> NoBundle]
       ELSE [raised |-> FALSE, registry |-> g.registry, error |-> <<>>,
             bundle |-> plugin_create_managers(g.plugin)]

----------------------------------------------------------------------------
(* The mesh executor *)

\* what subprocess.run of a mesh command meets: the command returns status
\* zero, returns another status, or is not installed (FileNotFoundError)
MeshOutcomes == {"zero", "nonzero", "absent"}

NoMesh == [ran |-> <<>>, complete |-> FALSE, raised |-> FALSE]

\* run_mesh that treats a status other than zero as an error (check=True)
run_mesh_checked(b, c) ==
    IF b # "zero"
    THEN [ran |-> <<<<"blockMesh", b>>>>, complete |-> FALSE, raised |-> TRUE]
    ELSE IF c # "zero"
    THEN [ran |-> <<<<"blockMesh", b>>, <<"checkMesh", c>>>>, complete |-> FALSE,
          raised |-> TRUE]
    ELSE [ran |-> <<<<"blockMesh", b>>, <<"checkMesh", c>>>>, complete |-> TRUE,
          raised |-> FALSE]

\* MeshExecutor.run_mesh(): blockMesh, then checkMesh, then the message
\* "Mesh generation complete!"; the statuses are not looked at
run_mesh(b, c) ==
    IF b = "absent"
    THEN [ran |-> <<<<"blockMesh", b>>>>, complete |-> FALSE, raised |-> TRUE]
    ELSE IF c = "absent"
    THEN [ran |-> <<<<"blockMesh", b>>, <<"checkMesh", c>>>>, complete |-> FALSE,
          raised |-> TRUE]
    ELSE [ran |-> <<<<"blockMesh", b>>, <<"checkMesh", c>>>>, complete |-> TRUE,
          raised |-> FALSE]

----------------------------------------------------------------------------
(* The state outside the dictionary engine, at rest *)

NoArgs == [list_solvers |-> FALSE, case_dir |-> "none", api_key |-> "",
           environ |-> "", dotenv |-> "", solver |-> ""]

\* a loop iteration of AIAssistant.run that has done nothing yet: cmd is the
\* line read by input(), sent the user turns handed to get_response so far,
\* mesh the run_mesh call, reported the lines printed about missing files or
\* an error, error the exception that ended the iteration
NoTurn == [cmd |-> "", sent |-> <<>>, mesh |-> NoMesh, reported |-> <<>>,
           error |-> ""]

\* plugins/__init__.py registers OpenFOAMPlugin at import
RegisteredAtImport == register_plugin(<<>>, OpenFOAMPlugin)

AppIdle ==
    /\ dirs = PopulatedDirs
    /\ registry = RegisteredAtImport
    /\ pc = "idle"
    /\ args = NoArgs
    /\ env = ""
    /\ turn = NoTurn
    /\ exit_code = <<>>
    /\ managers = FALSE
    /\ messages = <<>>

----------------------------------------------------------------------------
(* Spec: one DictionaryManager over a session of process_ai_response calls *)

NoCall == [op |-> "none", name |-> "", dict_type |-> "", content |-> <<>>,
           existed |-> FALSE]

FreshLedger == [n \in RequiredNames |-> FALSE]

Init ==
    /\ required_files = FreshLedger
    /\ written_files = {}
    /\ files = <<>>
    /\ raised = FALSE
    /\ committed = {}
    /\ reply = <<>>
    /\ dictionaries = <<>>
    /\ phase = "session"
    /\ call = NoCall
    /\ latest = <<>>
    /\ AppIdle

\* DictionaryManager.process_ai_response(input.response); failAt = 0: every
\* write succeeds
ProcessAiResponse ==
    \E input \in SessionInputs, failAt \in 0..MaxBlocks :
        LET st == process_ai_response(required_files, written_files, files,
                                      input.dictionaries, failAt)
        IN /\ required_files' = st.required_files
           /\ written_files' = st.written_files
           /\ files' = st.files
           /\ raised' = st.raised
           /\ UNCHANGED <<committed, reply, dictionaries, phase, call, latest>>
           /\ UNCHANGED appvars

Next == ProcessAiResponse

Spec == Init /\ [][Next]_vars

----------------------------------------------------------------------------
(* SpecReply: one reply, kept in the state, extracted and processed by a   *)
(* fresh DictionaryManager                                                 *)

InitReply ==
    /\ reply \in Replies
    /\ phase = "text"
    /\ dictionaries = <<>>
    /\ required_files = FreshLedger
    /\ written_files = {}
    /\ files = <<>>
    /\ raised = FALSE
    /\ committed = {}
    /\ call = NoCall
    /\ latest = <<>>
    /\ AppIdle

\* FoamDictionaryExtractor.extract_dictionaries(content)
ExtractDictionaries ==
    /\ phase = "text"
    /\ dictionaries' = extract_dictionaries(Render(reply))
    /\ phase' = "extracted"
    /\ UNCHANGED <<required_files, written_files, files, raised, committed,
                   reply, call, latest>>
    /\ UNCHANGED appvars

\* DictionaryManager.process_ai_response(response) on the reply of the state
ProcessReply ==
    /\ phase = "text"
    /\ LET extracted == extract_dictionaries(Render(reply))
       IN /\ dictionaries' = extracted
          /\ \E failAt \in 0..MaxBlocks :
               LET st == process_ai_response(required_files, written_files, files,
                                             extracted, failAt)
               IN /\ required_files' = st.required_files
                  /\ written_files' = st.written_files
                  /\ files' = st.files
                  /\ raised' = st.raised
                  /\ committed' = st.committed
    /\ phase' = "processed"
    /\ UNCHANGED <<reply, call, latest>>
    /\ UNCHANGED appvars

NextReply == ExtractDictionaries \/ ProcessReply

SpecReply == InitReply /\ [][NextReply]_vars

----------------------------------------------------------------------------
(* SpecWriter: the classifier and the writer called directly *)

ClassifierInputs ==
    system_files \cup initial_condition_files \cup
    {"transportProperties", "turbulenceProperties", "alpha", "water", "object",
     "UNKNOWN", "system", "u", "P", "controldict", ""}

WriterNames == {"controlDict", "U"}

WriterContents == {<<Payload(b), NL>> : b \in 1..MaxBodies}

InitWriter ==
    /\ files = <<>>
    /\ latest = <<>>
    /\ call = NoCall
    /\ phase = "writer"
    /\ required_files = FreshLedger
    /\ written_files = {}
    /\ raised = FALSE
    /\ committed = {}
    /\ reply = <<>>
    /\ dictionaries = <<>>
    /\ AppIdle

\* OpenFOAMDictionaryClassifier.get_dictionary_type(dict_name)
GetDictionaryType ==
    \E dict_name \in ClassifierInputs :
        /\ call' = [op |-> "get_dictionary_type", name |-> dict_name,
                    dict_type |-> get_dictionary_type(dict_name), content |-> <<>>,
                    existed |-> FALSE]
        /\ UNCHANGED <<files, latest, phase, required_files, written_files,
                       raised, committed, reply, dictionaries>>
        /\ UNCHANGED appvars

\* OpenFOAMDictionaryWriter.write_dictionary(name, content, dict_type), successful
WriteDictionary ==
    \E name \in WriterNames, content \in WriterContents, dict_type \in DictionaryType :
        /\ files' = write_dictionary(files, name, content, dict_type)
        /\ latest' = [q \in (DOMAIN latest) \cup {<<get_target_directory(dict_type), name>>} |->
                        IF q = <<get_target_directory(dict_type), name>>
                        THEN content ELSE latest[q]]
        /\ call' = [op |-> "write_dictionary", name |-> name,
                    dict_type |-> dict_type, content |-> content,
                    existed |-> <<get_target_directory(dict_type), name>> \in DOMAIN files]
        /\ UNCHANGED <<phase, required_files, written_files, raised, committed,
                       reply, dictionaries>>
        /\ UNCHANGED appvars

NextWriter == GetDictionaryType \/ WriteDictionary

SpecWriter == InitWriter /\ [][NextWriter]_vars

----------------------------------------------------------------------------
(* Claims about the ledger (Spec) *)

Count(seq, x) == Cardinality({i \in 1..Len(seq) : seq[i] = x})
Elems(seq) == {seq[i] : i \in 1..Len(seq)}

\* a file called name exists in the case directory
OnDisk(name) == \E q \in DOMAIN files : q[2] = name

IndependentNames == {"controlDict", "fvSchemes", "fvSolution", "U", "p"}

\* C1: in every reachable ledger state the missing list holds the combined
\* entry "blockMeshDict or snappyHexMeshDict" exactly once if both mesh flags
\* are false and not at all if either is true, and it never holds the bare
\* names blockMeshDict or snappyHexMeshDict.
C1_MeshPairCombined ==
    LET missing == get_missing_required_files(required_files)
        both_false == ~required_files["blockMeshDict"] /\ ~required_files["snappyHexMeshDict"]
    IN /\ Count(missing, MeshPair) = (IF both_false THEN 1 ELSE 0)
       /\ "blockMeshDict" \notin Elems(missing)
       /\ "snappyHexMeshDict" \notin Elems(missing)

\* C1 witness: only snappyHexMeshDict of the pair was written, and the list
\* names neither the pair nor a bare mesh name.
C1_Witness ==
    /\ required_files["snappyHexMeshDict"]
    /\ ~required_files["blockMeshDict"]
    /\ OnDisk("snappyHexMeshDict")
    /\ MeshPair \notin Elems(get_missing_required_files(required_files))

\* C2: for each of controlDict, fvSchemes, fvSolution, U, p the missing list
\* holds the name exactly once when its flag is false, whatever the other
\* flags are (also with both mesh flags false), and not when its flag is true.
C2_IndependentNamesListed ==
    LET missing == get_missing_required_files(required_files)
    IN \A n \in IndependentNames :
          Count(missing, n) = (IF required_files[n] THEN 0 ELSE 1)

\* C3: ledger monotonicity: no process_ai_response call, whatever the reply
\* and whether or not a write fails, turns a true flag back to false.
C3_LedgerMonotonic ==
    [][\A n \in RequiredNames : required_files[n] => required_files'[n]]_vars

\* C3 witness: the last call ended on a write failure, and more flags are true
\* than that call can have set before failing, so a flag was true before it.
C3_Witness ==
    /\ raised
    /\ Cardinality({n \in RequiredNames : required_files[n]}) >= MaxBlocks

\* C4: once controlDict, fvSchemes, fvSolution, U, p and at least one of
\* blockMeshDict / snappyHexMeshDict have been written, the missing list is
\* empty.
C4_CompleteMeansNoneMissing ==
    ((\A n \in IndependentNames : OnDisk(n))
        /\ (OnDisk("blockMeshDict") \/ OnDisk("snappyHexMeshDict")))
    => get_missing_required_files(required_files) = <<>>

\* C4 witness (scenario C): snappyHexMeshDict alone of the mesh pair, and the
\* five other required files, are written and nothing is missing.
C4_Witness ==
    /\ \A n \in IndependentNames : OnDisk(n)
    /\ OnDisk("snappyHexMeshDict")
    /\ ~OnDisk("blockMeshDict")
    /\ get_missing_required_files(required_files) = <<>>

----------------------------------------------------------------------------
(* Claims about one reply (SpecReply) *)

\* block i of r is one the extractor considers: a solver-tagged block, or any
\* block when the reply has no solver-tagged block
Considered(r, i) ==
    (\E j \in 1..Len(r) : r[j].tag = solver_name) => r[i].tag = solver_name

\* C5: when the write of a block fails, every block the call wrote before it
\* has its written_files entry, its ledger flag (if it is a ledger key) and
\* its file, also after the exception.
C5_PerBlockCommit ==
    (phase = "processed" /\ raised) =>
        \A n \in committed :
            /\ n \in written_files
            /\ n \in RequiredNames => required_files[n]
            /\ OnDisk(n)

\* C5 witness: the second block's write failed after a ledger key was written.
C5_Witness ==
    /\ phase = "processed"
    /\ raised
    /\ committed = {"controlDict"}
    /\ required_files["controlDict"]
    /\ Len(dictionaries) = 2

\* the blocks of r the extractor considers that declare name n
Declaring(r, n) == {i \in 1..Len(r) : Considered(r, i) /\ r[i].decl = n}

Last(S) == CHOOSE i \in S : \A j \in S : j <= i

DeclaredNames == ReplyDecls \ {NoDecl}

\* C6: last-wins: when two or more considered blocks declare the same name
\* with different bodies, the result holds exactly one entry for that name,
\* with the body of the last of these blocks.
C6_LastWins ==
    (phase = "extracted") =>
        \A n \in DeclaredNames :
            LET D == Declaring(reply, n)
            IN (\E i, j \in D : BodyOf(reply[i]) # BodyOf(reply[j])) =>
                  /\ Cardinality({k \in 1..Len(dictionaries) : dictionaries[k].name = n}) = 1
                  /\ DictGet(dictionaries, n) = BodyOf(reply[Last(D)])

\* C6 for the names the declaration pattern matches (a single \w+ run): the
\* statement of C6 holds for them.
LastWinsForWordNames ==
    (phase = "extracted") =>
        \A n \in {m \in DeclaredNames : Len(NameParts(m)) = 1} :
            LET D == Declaring(reply, n)
            IN (\E i, j \in D : BodyOf(reply[i]) # BodyOf(reply[j])) =>
                  /\ Cardinality({k \in 1..Len(dictionaries) : dictionaries[k].name = n}) = 1
                  /\ DictGet(dictionaries, n) = BodyOf(reply[Last(D)])

LastWinsReached ==
    /\ phase = "extracted"
    /\ Cardinality(Declaring(reply, "controlDict")) = 2
    /\ reply[1].body # reply[2].body
    /\ DictGet(dictionaries, "controlDict") = BodyOf(reply[2])

\* the blocks that are extracted when they stand alone in the text
NamedAlone == {b \in AllBlocks : extract_dictionaries(RenderBlock(b)) # <<>>}

\* the blocks of r the extractor considers and extracts when they stand alone
ExtractedAlone(r) == {i \in 1..Len(r) : Considered(r, i) /\ r[i] \in NamedAlone}

\* the considered blocks of r without a declaration
Unnamed(r) == {i \in 1..Len(r) : Considered(r, i) /\ r[i].decl = NoDecl}

C8_DottedNameVerbatim ==
    (Declaring(reply, "alpha.water") # {}) =>
        /\ phase \in {"extracted", "processed"} => DictHas(dictionaries, "alpha.water")
        /\ (phase = "processed" /\ ~raised) => <<"0", "alpha.water">> \in DOMAIN files

----------------------------------------------------------------------------
(* Claims about the classifier and the writer (SpecWriter) *)

\* C9: get_dictionary_type returns SYSTEM exactly for the five system names,
\* INITIAL_CONDITION exactly for the eight initial-condition names, CONSTANT
\* for every other name, and never UNKNOWN.
C9_ClassifyBySetMembership ==
    (call.op = "get_dictionary_type") =>
        /\ call.dict_type # "UNKNOWN"
        /\ call.dict_type = "SYSTEM" <=>
              call.name \in {"controlDict", "fvSchemes", "fvSolution",
                             "blockMeshDict", "snappyHexMeshDict"}
        /\ call.dict_type = "INITIAL_CONDITION" <=>
              call.name \in {"U", "p", "k", "epsilon", "omega", "nut",
                             "alpha.water", "alpha.air"}
        /\ call.dict_type = "CONSTANT" <=>
              call.name \notin {"controlDict", "fvSchemes", "fvSolution",
                                "blockMeshDict", "snappyHexMeshDict",
                                "U", "p", "k", "epsilon", "omega", "nut",
                                "alpha.water", "alpha.air"}

\* C9 witness: a name in neither set was classified, as CONSTANT.
C9_Witness ==
    /\ call.op = "get_dictionary_type"
    /\ call.name = "transportProperties"
    /\ call.dict_type = "CONSTANT"

\* C10: after any sequence of successful writes every file holds exactly the
\* content of the most recent write to its path, and no other file exists.
C10_WriteOverwrites ==
    /\ DOMAIN files = DOMAIN latest
    /\ \A q \in DOMAIN files : files[q] = latest[q]
    /\ call.op = "write_dictionary" =>
          files[<<get_target_directory(call.dict_type), call.name>>] = call.content

\* C10 witness: the last write went to a file that existed, and a file of
\* another name holds another content.
C10_Witness ==
    /\ call.op = "write_dictionary"
    /\ call.existed
    /\ files[<<get_target_directory(call.dict_type), call.name>>] = call.content
    /\ \E q \in DOMAIN files : q[2] # call.name /\ files[q] # call.content

----------------------------------------------------------------------------
(* SpecDirs: ensure_directories_exist called on any case directory *)

Kinds == {"absent", "dir", "file"}

\* the trees a file system can hold: a node exists only inside a directory
DirTrees ==
    {d \in [DirNodes -> Kinds] :
        \A n \in DirNodes : d[n] # "absent" => KindOf(d, Parent(n)) = "dir"}

\* a file for each of the four directories
DirFiles == {<<"system", "controlDict">>, <<"constant", "transportProperties">>,
             <<"0", "U">>, <<TRISURFACE, "geometry.stl">>}

InitDirs ==
    /\ dirs \in DirTrees
    /\ \E S \in SUBSET {q \in DirFiles : dirs[q[1]] = "dir"} :
          files = [q \in S |-> <<Payload(1), NL>>]
    /\ raised = FALSE
    /\ call = NoCall
    /\ phase = "dirs"
    /\ required_files = FreshLedger
    /\ written_files = {}
    /\ committed = {}
    /\ reply = <<>>
    /\ dictionaries = <<>>
    /\ latest = <<>>
    /\ registry = RegisteredAtImport
    /\ pc = "idle"
    /\ args = NoArgs
    /\ env = ""
    /\ turn = NoTurn
    /\ exit_code = <<>>
    /\ managers = FALSE
    /\ messages = <<>>

\* OpenFOAMFilePathManager.ensure_directories_exist(); denied: the file
\* system refuses to create a directory
EnsureDirectoriesExist ==
    \E denied \in BOOLEAN :
        LET r == ensure_directories_exist(dirs, denied)
        IN /\ dirs' = r.dirs
           /\ raised' = r.raised
           /\ call' = [op |-> "ensure_directories_exist", before |-> dirs,
                       denied |-> denied]
           /\ UNCHANGED <<messages, files, phase, required_files, written_files, committed,
                          reply, dictionaries, latest, registry, pc, args, env,
                          turn, exit_code, managers>>

NextDirs == EnsureDirectoriesExist

SpecDirs == InitDirs /\ [][NextDirs]_vars

----------------------------------------------------------------------------
(* Claims about the case directory tree (SpecDirs) *)

----------------------------------------------------------------------------
(* SpecRegistry: the registry from its empty state, plugins registered and *)
(* looked up, managers created through the factory                         *)

\* the solver ids asked for
SolverIds == {"openfoam", "OpenFOAM", "su2", "SU2", "fluent", "foam", ""}

InitRegistry ==
    /\ registry = <<>>
    /\ call = NoCall
    /\ raised = FALSE
    /\ managers = FALSE
    /\ phase = "registry"
    /\ required_files = FreshLedger
    /\ written_files = {}
    /\ files = <<>>
    /\ committed = {}
    /\ reply = <<>>
    /\ dictionaries = <<>>
    /\ latest = <<>>
    /\ dirs = PopulatedDirs
    /\ pc = "idle"
    /\ args = NoArgs
    /\ env = ""
    /\ turn = NoTurn
    /\ exit_code = <<>>
    /\ messages = <<>>

\* PluginRegistry.register_plugin(plugin_class)
RegisterPlugin ==
    \E plugin_class \in PluginClasses :
        /\ registry' = register_plugin(registry, plugin_class)
        /\ call' = [op |-> "register_plugin", name |-> plugin_class,
                    before |-> registry, had |-> managers, plugin |-> NoPlugin,
                    error |-> <<>>, bundle |-> NoBundle]
        /\ raised' = FALSE
        /\ UNCHANGED <<messages, managers, phase, required_files, written_files, files,
                       committed, reply, dictionaries, latest, dirs, pc, args, env,
                       turn, exit_code>>

\* PluginRegistry.get_plugin(solver_name)
GetPlugin ==
    \E name \in SolverIds :
        LET r == get_plugin(registry, name)
        IN /\ registry' = r.registry
           /\ call' = [op |-> "get_plugin", name |-> name, before |-> registry,
                       had |-> managers, plugin |-> r.plugin, error |-> r.error,
                       bundle |-> NoBundle]
           /\ raised' = r.raised
           /\ UNCHANGED <<messages, managers, phase, required_files, written_files, files,
                          committed, reply, dictionaries, latest, dirs, pc, args,
                          env, turn, exit_code>>

\* SolverFactory.create_managers(solver_name, case_dir, api_key)
CreateManagers ==
    \E name \in SolverIds :
        LET r == create_managers(registry, name)
        IN /\ registry' = r.registry
           /\ call' = [op |-> "create_managers", name |-> name, before |-> registry,
                       had |-> managers, plugin |-> NoPlugin, error |-> r.error,
                       bundle |-> r.bundle]
           /\ raised' = r.raised
           /\ managers' = (managers \/ r.bundle # NoBundle)
           /\ UNCHANGED <<messages, phase, required_files, written_files, files, committed,
                          reply, dictionaries, latest, dirs, pc, args, env, turn,
                          exit_code>>

NextRegistry == RegisterPlugin \/ GetPlugin \/ CreateManagers

SpecRegistry == InitRegistry /\ [][NextRegistry]_vars

----------------------------------------------------------------------------
(* Claims about the registry and the factory (SpecRegistry) *)

\* the lookup of the registry finds the id (ids are compared in lower case)
Registered(reg, name) == Lower(name) \in DictKeys(reg)

\* C12: get_plugin and create_managers with a solver id that is not
\* registered raise an error whose message lists the registered ids in
\* registry order, create no managers and leave the registry as it was; with
\* a registered id get_plugin returns the plugin registered for it and
\* create_managers returns a bundle that holds a prompt manager, a
\* conversation manager, a dictionary manager, a path manager and a mesh
\* executor.
C12_UnknownSolverNotFound ==
    call.op \in {"get_plugin", "create_managers"} =>
        IF ~Registered(call.before, call.name)
        THEN /\ raised
             /\ \A k \in DictKeys(call.before) : k \in Elems(call.error)
             /\ SubSeq(call.error, 4, Len(call.error))
                    = JoinComma(available_solvers(call.before))
             /\ call.name \in Elems(call.error)
             /\ call.bundle = NoBundle
             /\ call.plugin = NoPlugin
             /\ managers = call.had
             /\ registry = call.before
        ELSE /\ ~raised
             /\ registry = call.before
             /\ call.op = "get_plugin" =>
                    call.plugin = DictGet(call.before, Lower(call.name))
             /\ call.op = "create_managers" =>
                    /\ DOMAIN call.bundle = ManagerFields
                    /\ managers

\* create_managers was refused for an id outside a registry of two plugins
C12_Witness ==
    /\ call.op = "create_managers"
    /\ Len(call.before) = 2
    /\ ~Registered(call.before, call.name)
    /\ raised
    /\ ~managers

----------------------------------------------------------------------------
(* SpecCli: one run of the command line, from main() through the session   *)
(* of AIAssistant.run to the exit of the process.  A step runs from one    *)
(* wait for the outside world (the line read by input(), the reply of      *)
(* get_response) to the next.                                              *)

\* validate_path that accepts every path
validate_path_any(case_dir) == case_dir \in {"valid", "missing", "file"}

\* validate_path(path_str) returns the path: it exists and is a directory
validate_path(case_dir) == case_dir = "valid"

\* load_config(): load_dotenv sets OPENAI_API_KEY from a .env file unless the
\* environment holds it already
load_config(e, dotenv) == IF e # "" THEN e ELSE dotenv

\* show_available_solvers(): the lines it prints
show_available_solvers(reg) ==
    IF available_solvers(reg) = <<>> THEN <<"No solver plugins found!">>
    ELSE <<"Available solvers:">> \o available_solvers(reg)

\* the process has ended with status code after printing lines
Exited(code, e, built, d, t) ==
    [pc |-> "EXITED", exit_code |-> <<code>>, env |-> e, managers |-> built,
     dirs |-> d, turn |-> t]

\* the lines of main's except clause for the exception exc
ErrorReport(exc) == <<"Error:", exc>>

\* main() of cli.py up to the first get_response of AIAssistant.run; a: the
\* command line and the .env file, e: OPENAI_API_KEY of the environment,
\* reg: the registry, d: the directory tree, denied: the file system refuses
\* to create a directory
main(a, e, reg, d, denied) ==
    IF a.case_dir # "none" /\ ~validate_path(a.case_dir)
    THEN \* parser.parse_args(): ArgumentTypeError becomes parser.error, status 2
         Exited(2, e, FALSE, d,
                [NoTurn EXCEPT !.error = "SystemExit",
                               !.reported = <<"usage:", "error: argument case_dir">>])
    ELSE IF a.list_solvers
    THEN Exited(0, e, FALSE, d, [NoTurn EXCEPT !.reported = show_available_solvers(reg)])
    ELSE IF a.case_dir = "none"
    THEN Exited(1, e, FALSE, d,
                [NoTurn EXCEPT !.reported = <<"Error: Case directory is required">>])
    ELSE LET e1 == load_config(e, a.dotenv)
             api_key == IF a.api_key # "" THEN a.api_key ELSE e1
             solver == Lower(a.solver)
         IN IF api_key = ""
            THEN Exited(1, e1, FALSE, d,
                        [NoTurn EXCEPT !.reported = <<"Error: OpenAI API key not found.">>])
            ELSE IF solver \notin Elems(available_solvers(reg))
            THEN Exited(1, api_key, FALSE, d,
                        [NoTurn EXCEPT !.reported = <<"Error: Unknown solver", a.solver>>
                                                    \o show_available_solvers(reg)])
            ELSE LET c == create_managers(reg, solver)
                     r == ensure_directories_exist(d, denied)
                 IN IF c.raised
                    THEN Exited(1, api_key, FALSE, d,
                                [NoTurn EXCEPT !.error = "ValueError",
                                               !.reported = ErrorReport("ValueError")])
                    ELSE IF r.raised
                    THEN Exited(1, api_key, TRUE, r.dirs,
                                [NoTurn EXCEPT !.error = "OSError",
                                               !.reported = ErrorReport("OSError")])
                    ELSE [pc |-> "AWAITING_REPLY", exit_code |-> <<>>,
                          env |-> api_key, managers |-> TRUE, dirs |-> r.dirs,
                          turn |-> [NoTurn EXCEPT !.sent = <<<<"initial_prompt">>>>]]

\* the prompt of lines 81-84: it names the missing files
missing_files_prompt(missing_files) == <<"missing_files_prompt">> \o missing_files

\* the last user turn handed to get_response
LastSent(t) == t.sent[Len(t.sent)]

\* lines 98-106 with a run_mesh that ends the loop
mesh_then_break(t, b, c) ==
    LET r == run_mesh(b, c)
    IN IF r.raised
       THEN [pc |-> "EXITED", exit_code |-> <<1>>,
             turn |-> [t EXCEPT !.mesh = r, !.error = "FileNotFoundError",
                                !.reported = ErrorReport("FileNotFoundError")]]
       ELSE [pc |-> "EXITED", exit_code |-> <<0>>,
             turn |-> [t EXCEPT !.mesh = r, !.reported = <<"Case setup complete!">>]]

\* lines 98-104: run_mesh(), then control falls out of the elif branch to
\* get_response(user_input)
mesh_then_send(t, b, c) ==
    LET r == run_mesh(b, c)
    IN IF r.raised
       THEN [pc |-> "EXITED", exit_code |-> <<1>>,
             turn |-> [t EXCEPT !.mesh = r, !.error = "FileNotFoundError",
                                !.reported = ErrorReport("FileNotFoundError")]]
       ELSE [pc |-> "AWAITING_REPLY", exit_code |-> <<>>,
             turn |-> [t EXCEPT !.mesh = r, !.sent = Append(@, <<"user", t.cmd>>)]]

\* the loop body with a run branch that does not look at the ledger
on_input_unchecked(user_input, rf, b, c) ==
    LET t == [NoTurn EXCEPT !.cmd = user_input]
    IN IF Lower(user_input) = "done"
       THEN [pc |-> "EXITED", exit_code |-> <<0>>,
             turn |-> [t EXCEPT !.reported = <<"Case setup complete!">>]]
       ELSE IF Lower(user_input) = "run"
       THEN mesh_then_send(t, b, c)
       ELSE [pc |-> "AWAITING_REPLY", exit_code |-> <<>>,
             turn |-> [t EXCEPT !.sent = <<<<"user", user_input>>>>]]

\* lines 72-104: the loop body from the line read by input() to the next
\* get_response or to the end of run(); rf: the ledger, b and c: what the
\* mesh commands meet
on_input(user_input, rf, b, c) ==
    LET t == [NoTurn EXCEPT !.cmd = user_input]
        missing_files == get_missing_required_files(rf)
    IN IF Lower(user_input) = "done"
       THEN [pc |-> "EXITED", exit_code |-> <<0>>,
             turn |-> [t EXCEPT !.reported = <<"Case setup complete!">>]]
       ELSE IF Lower(user_input) = "run"
       THEN IF missing_files # <<>>
            THEN [pc |-> "AWAITING_REPLY", exit_code |-> <<>>,
                  turn |-> [t EXCEPT !.sent = <<missing_files_prompt(missing_files)>>]]
            ELSE mesh_then_send(t, b, c)
       ELSE [pc |-> "AWAITING_REPLY", exit_code |-> <<>>,
             turn |-> [t EXCEPT !.sent = <<<<"user", user_input>>>>]]

\* the steps after a reply with a write failure that is passed over
after_reply_swallow(t, st, b, c) ==
    IF st.raised THEN [pc |-> "AWAITING_INPUT", exit_code |-> <<>>, turn |-> NoTurn]
    ELSE IF LastSent(t)[1] = "missing_files_prompt"
    THEN LET missing_files == get_missing_required_files(st.required_files)
         IN IF missing_files # <<>>
            THEN [pc |-> "AWAITING_INPUT", exit_code |-> <<>>,
                  turn |-> [NoTurn EXCEPT !.reported =
                               <<"Still missing required files:">> \o missing_files]]
            ELSE mesh_then_send(t, b, c)
    ELSE [pc |-> "AWAITING_INPUT", exit_code |-> <<>>, turn |-> NoTurn]

\* what follows process_ai_response(response) of lines 68, 88 and 106; st:
\* the manager after the call.  An exception leaves run() and main() reports
\* it and returns 1; after the reply to the missing-files prompt lines 91-104
\* follow; otherwise the loop reads the next line.  At the top of the loop a
\* new iteration begins: of the record only the lines printed are kept
after_reply(t, st, b, c) ==
    IF st.raised
    THEN [pc |-> "EXITED", exit_code |-> <<1>>,
          turn |-> [t EXCEPT !.error = "OSError", !.reported = ErrorReport("OSError")]]
    ELSE IF LastSent(t)[1] = "missing_files_prompt"
    THEN LET missing_files == get_missing_required_files(st.required_files)
         IN IF missing_files # <<>>
            THEN [pc |-> "AWAITING_INPUT", exit_code |-> <<>>,
                  turn |-> [NoTurn EXCEPT !.reported =
                               <<"Still missing required files:">> \o missing_files]]
            ELSE mesh_then_send(t, b, c)
    ELSE [pc |-> "AWAITING_INPUT", exit_code |-> <<>>, turn |-> NoTurn]

\* the command lines: the case directory argument is left out, names a
\* directory, names nothing or names a regular file; the key comes from
\* --api-key, from the environment (environ) or from a .env file
CliArgs ==
    [list_solvers : BOOLEAN,
     case_dir : {"none", "valid", "missing", "file"},
     api_key : {"", "sk-flag"},
     environ : {"", "sk-env"},
     dotenv : {"", "sk-dotenv"},
     solver : {"OpenFOAM", "fluent"}]

\* the directory trees that go with a case directory argument
InitialDirs(case_dir) ==
    IF case_dir = "valid"
    THEN {EmptyCaseDirs, [EmptyCaseDirs EXCEPT !["0"] = "file"]}
    ELSE IF case_dir = "file" THEN {[EmptyCaseDirs EXCEPT ![CASE_DIR] = "file"]}
    ELSE {[n \in DirNodes |-> "absent"]}

\* what the lines typed at the prompt are
UserInputs == {"Done", "run", "use a finer mesh"}

\* what the two mesh commands meet in a step; a step that cannot reach
\* run_mesh has one choice
MeshChoices(reachable) ==
    IF reachable THEN MeshOutcomes \X MeshOutcomes ELSE {<<"zero", "zero">>}

\* the declarations of the blocks of a reply: consecutive entries of this list
CliDeclOrder == RequiredOrder \o <<NoDecl>>

\* the replies of the model in a session: up to MaxBlocks blocks
CliReplies ==
    {[j \in 1..k |-> [tag |-> solver_name, decl |-> CliDeclOrder[i + j - 1], body |-> 1]] :
        <<i, k>> \in {w \in (1..Len(CliDeclOrder)) \X (0..MaxBlocks) :
                        w[1] + w[2] - 1 <= Len(CliDeclOrder)}}

CliInputs ==
    {[response |-> Render(r), dictionaries |-> extract_dictionaries(Render(r))] :
        r \in CliReplies}

InitCli ==
    /\ args \in CliArgs
    /\ env = args.environ
    /\ dirs \in InitialDirs(args.case_dir)
    /\ registry = RegisteredAtImport
    /\ pc = "main"
    /\ turn = NoTurn
    /\ exit_code = <<>>
    /\ managers = FALSE
    /\ messages = <<>>
    /\ required_files = FreshLedger
    /\ written_files = {}
    /\ files = <<>>
    /\ raised = FALSE
    /\ committed = {}
    /\ reply = <<>>
    /\ dictionaries = <<>>
    /\ phase = "cli"
    /\ call = NoCall
    /\ latest = <<>>

\* main() until the session waits for the first reply or the process exits
Main ==
    /\ pc = "main"
    /\ \E denied \in BOOLEAN :
         LET r == main(args, env, registry, dirs, denied)
         IN /\ pc' = r.pc
            /\ exit_code' = r.exit_code
            /\ env' = r.env
            /\ managers' = r.managers
            /\ dirs' = r.dirs
            /\ turn' = r.turn
    /\ UNCHANGED <<messages, required_files, written_files, files, raised, committed, reply,
                   dictionaries, phase, call, latest, registry, args>>

\* get_response returns input.response: process_ai_response(response) and
\* the code after it, up to the next wait or the exit; the write of block
\* failAt fails (0: none does)
ReceiveReply ==
    /\ pc = "AWAITING_REPLY"
    /\ \E input \in CliInputs,
          bc \in MeshChoices(LastSent(turn)[1] = "missing_files_prompt") :
       \E failAt \in 0..Len(input.dictionaries) :
         LET b == bc[1]
             c == bc[2]
             st == process_ai_response(required_files, written_files, files,
                                       input.dictionaries, failAt)
             r == after_reply(turn, st, b, c)
         IN /\ required_files' = st.required_files
            /\ written_files' = st.written_files
            /\ files' = st.files
            /\ raised' = st.raised
            /\ pc' = r.pc
            /\ exit_code' = r.exit_code
            /\ turn' = r.turn
    /\ UNCHANGED <<messages, committed, reply, dictionaries, phase, call, latest, dirs,
                   registry, args, env, managers>>

\* get_response raises (the API call fails): main() reports it and returns 1
ApiError ==
    /\ pc = "AWAITING_REPLY"
    /\ pc' = "EXITED"
    /\ exit_code' = <<1>>
    /\ turn' = [turn EXCEPT !.error = "APIError", !.reported = ErrorReport("APIError")]
    /\ UNCHANGED <<messages, required_files, written_files, files, raised, committed, reply,
                   dictionaries, phase, call, latest, dirs, registry, args, env,
                   managers>>

\* input() returns user_input: the loop body up to the next wait or the exit
UserInput ==
    /\ pc = "AWAITING_INPUT"
    /\ \E user_input \in UserInputs :
       \E bc \in MeshChoices(Lower(user_input) = "run") :
         LET r == on_input(user_input, required_files, bc[1], bc[2])
         IN /\ pc' = r.pc
            /\ exit_code' = r.exit_code
            /\ turn' = r.turn
    /\ UNCHANGED <<messages, required_files, written_files, files, raised, committed, reply,
                   dictionaries, phase, call, latest, dirs, registry, args, env,
                   managers>>

\* input() raises EOFError (the input stream has ended)
InputEof ==
    /\ pc = "AWAITING_INPUT"
    /\ pc' = "EXITED"
    /\ exit_code' = <<1>>
    /\ turn' = [NoTurn EXCEPT !.error = "EOFError", !.reported = ErrorReport("EOFError")]
    /\ UNCHANGED <<messages, required_files, written_files, files, raised, committed, reply,
                   dictionaries, phase, call, latest, dirs, registry, args, env,
                   managers>>

NextCli == Main \/ ReceiveReply \/ ApiError \/ UserInput \/ InputEof

SpecCli == InitCli /\ [][NextCli]_vars

----------------------------------------------------------------------------
(* Claims about the session and the command line (SpecCli) *)

\* the ledger is complete: the five independent flags and one of the mesh pair
LedgerComplete(rf) ==
    /\ \A n \in IndependentNames : rf[n]
    /\ rf["blockMeshDict"] \/ rf["snappyHexMeshDict"]

\* run() has returned: the session is in its terminal DONE state
SessionDone == pc = "EXITED" /\ managers /\ turn.error = ""

\* C13: the session started by main() never ends through the command done
\* while get_missing_required_files() is not empty.
C13_DoneOnlyWhenNothingMissing ==
    (SessionDone /\ Lower(turn.cmd) = "done")
        => get_missing_required_files(required_files) = <<>>

\* C14: once run_mesh() has been invoked and has returned, the session is in
\* its terminal state: no input is awaited, no reply is awaited and the text
\* "run" has not been handed to get_response as a user turn.
C14_RunEndsSession ==
    turn.mesh.complete =>
        /\ SessionDone
        /\ <<"user", "run">> \notin Elems(turn.sent)

\* C15: every step that invokes run_mesh() does so with a complete ledger;
\* and when the reply to the missing-files prompt has been processed and
\* required files are still missing, run_mesh() is not invoked, the list of
\* the files still missing is printed and the session awaits input.
C15_MeshOnlyWhenLedgerComplete ==
    [][/\ (turn.mesh.ran = <<>> /\ turn'.mesh.ran # <<>>)
            => LedgerComplete(required_files')
       /\ (/\ pc = "AWAITING_REPLY"
           /\ LastSent(turn)[1] = "missing_files_prompt"
           /\ turn'.error = ""
           /\ get_missing_required_files(required_files') # <<>>)
            => /\ turn'.mesh = NoMesh
               /\ turn'.reported = <<"Still missing required files:">>
                      \o get_missing_required_files(required_files')
               /\ pc' = "AWAITING_INPUT"]_vars

\* the reply to the missing-files prompt wrote a file and left files missing:
\* the list is printed, no mesh command has run, the session awaits input
C15_Witness ==
    /\ pc = "AWAITING_INPUT"
    /\ Len(turn.reported) > 1
    /\ turn.reported[1] = "Still missing required files:"
    /\ turn.mesh = NoMesh
    /\ written_files # {}

InvalidPath == args.case_dir \in {"missing", "file"}
NoCaseDir == args.case_dir = "none"
NoCredential == args.api_key = "" /\ args.environ = "" /\ args.dotenv = ""
UnknownSolver == Lower(args.solver) \notin DictKeys(registry)

\* C16 as stated: the exit code is 0 on normal completion (list-solvers mode,
\* session finished) and 1 on a missing case directory argument, a missing
\* credential, an unknown solver id and an invalid case path.
C16_ExitCodeOneOnEveryError ==
    pc = "EXITED" =>
        /\ InvalidPath => exit_code = <<1>>
        /\ (~InvalidPath /\ args.list_solvers) => exit_code = <<0>>
        /\ (~InvalidPath /\ ~args.list_solvers
              /\ (NoCaseDir \/ NoCredential \/ UnknownSolver)) => exit_code = <<1>>
        /\ SessionDone => exit_code = <<0>>

\* C16, amended: the exit code is 0 on normal completion (list-solvers mode,
\* session finished) and 1 on a missing case directory argument, a missing
\* credential and an unknown solver id; a case path that does not exist or is
\* not a directory ends the process in argument parsing with status 2.
C16_ExitCodes ==
    pc = "EXITED" =>
        /\ InvalidPath => exit_code = <<2>>
        /\ (~InvalidPath /\ args.list_solvers) => exit_code = <<0>>
        /\ (~InvalidPath /\ ~args.list_solvers
              /\ (NoCaseDir \/ NoCredential \/ UnknownSolver)) => exit_code = <<1>>
        /\ SessionDone => exit_code = <<0>>

\* the case path names a regular file, a credential and a known solver are
\* given, and the process has ended with status 2
C16_Witness ==
    /\ pc = "EXITED"
    /\ args.case_dir = "file"
    /\ ~NoCredential
    /\ ~UnknownSolver
    /\ exit_code = <<2>>

\* C17: when process_ai_response or run_mesh raises in a session started by
\* main(), the process ends with the error printed and exit code 1, every
\* ledger flag that was true is still true, and every required file on disk
\* has its flag set.
C17_SessionExceptionReported ==
    [][(pc \in {"AWAITING_REPLY", "AWAITING_INPUT"}
          /\ (raised' \/ turn'.mesh.raised))
        => /\ pc' = "EXITED"
           /\ exit_code' = <<1>>
           /\ turn'.error # ""
           /\ turn'.reported = ErrorReport(turn'.error)
           /\ \A n \in RequiredNames : required_files[n] => required_files'[n]
           /\ \A n \in RequiredNames : OnDisk(n)' => required_files'[n]]_vars

\* a write failed in a session that had written files before: exit code 1
C17_Witness ==
    /\ pc = "EXITED"
    /\ raised
    /\ written_files # {}
    /\ exit_code = <<1>>
    /\ turn.reported = ErrorReport("OSError")

----------------------------------------------------------------------------
(* SpecTags: one reply as in SpecReply, with blocks whose tag holds        *)
(* characters other than letters                                           *)

\* the tags of the blocks: the solver id, a tag with characters outside
\* [a-zA-Z], and no tag
OtherTags == {solver_name, "c++", ""}

TagReplies == SeqsUpTo(BlocksOf(OtherTags, {"controlDict", "U"}, {1}), MaxBlocks)

InitTags ==
    /\ reply \in TagReplies
    /\ phase = "text"
    /\ dictionaries = <<>>
    /\ required_files = FreshLedger
    /\ written_files = {}
    /\ files = <<>>
    /\ raised = FALSE
    /\ committed = {}
    /\ call = NoCall
    /\ latest = <<>>
    /\ AppIdle

SpecTags == InitTags /\ [][NextReply]_vars

----------------------------------------------------------------------------
(* Claims about the tag fallback (SpecTags, SpecReply) *)

\* the blocks of r the extractor is to scan: the solver-tagged blocks if
\* there is one, every block otherwise
Scanned(r) ==
    LET tagged == {i \in 1..Len(r) : r[i].tag = solver_name}
    IN IF tagged # {} THEN tagged ELSE 1..Len(r)

\* the scanned blocks of r whose declaration the pattern object\s+(\w+);
\* matches as a whole
ScannedNamed(r) ==
    {i \in Scanned(r) : r[i].decl # NoDecl /\ Len(NameParts(r[i].decl)) = 1}

\* C18: the result of extract_dictionaries holds exactly the names declared
\* in the solver-tagged blocks if the text has a solver-tagged block, and
\* exactly the names declared in all blocks, whatever their tag, if it has
\* none; each name maps to the body of the last such block declaring it.
C18_TagFallback ==
    phase \in {"extracted", "processed"} =>
        /\ DictKeys(dictionaries) = {reply[i].decl : i \in ScannedNamed(reply)}
        /\ \A n \in DictKeys(dictionaries) :
              DictGet(dictionaries, n)
                 = BodyOf(reply[Last({i \in ScannedNamed(reply) : reply[i].decl = n})])

----------------------------------------------------------------------------
(* Claims about where and what process_ai_response writes (Spec, SpecReply) *)

\* the directory the claim gives to a name
RootOf(name) ==
    IF name \in {"controlDict", "fvSchemes", "fvSolution", "blockMeshDict",
                 "snappyHexMeshDict"} THEN "system"
    ELSE IF name \in {"U", "p", "k", "epsilon", "omega", "nut", "alpha.water",
                      "alpha.air"} THEN "0"
    ELSE "constant"

\* C19: every file process_ai_response has written lies directly under the
\* root its name selects (system for the SYSTEM names, 0 for the
\* INITIAL_CONDITION names, constant for every other name), each written name
\* has one file, the file holds the body of its block verbatim, and
\* get_target_directory gives the constant directory for CONSTANT and for
\* UNKNOWN.
C19_WrittenUnderRootOfName ==
    /\ \A q \in DOMAIN files :
          /\ q = <<RootOf(q[2]), q[2]>>
          /\ q[2] \in written_files
          /\ files[q] = BodyOf([tag |-> solver_name, decl |-> q[2], body |-> 1])
    /\ \A n \in written_files : Cardinality({q \in DOMAIN files : q[2] = n}) = 1
    /\ get_target_directory("CONSTANT") = "constant"
    /\ get_target_directory("UNKNOWN") = "constant"

\* a session has written a file under each of the three roots
C19_Witness ==
    /\ phase = "session"
    /\ {<<"system", "controlDict">>, <<"0", "U">>, <<"constant", "transportProperties">>}
          \subseteq DOMAIN files

\* C20: when a write fails in process_ai_response the call raises, and the
\* blocks written are exactly those before the failing one: the failing block
\* and every later block of the reply have no file, no written_files entry
\* and no ledger flag from the call.
C20_FailFast ==
    (phase = "processed" /\ raised) =>
        \E k \in 1..Len(dictionaries) :
            LET before == {dictionaries[j].name : j \in 1..(k - 1)}
                rest == {dictionaries[j].name : j \in k..Len(dictionaries)}
            IN /\ committed = before
               /\ written_files = before
               /\ {q[2] : q \in DOMAIN files} = before
               /\ \A n \in rest :
                     /\ n \notin written_files
                     /\ ~OnDisk(n)
                     /\ n \in RequiredNames => ~required_files[n]

\* the write of the first of two blocks failed: nothing of the reply is on
\* disk or in the ledger
C20_Witness ==
    /\ phase = "processed"
    /\ raised
    /\ Len(dictionaries) = 2
    /\ committed = {}
    /\ files = <<>>
    /\ written_files = {}

----------------------------------------------------------------------------
(* Claims about the start of the session (SpecCli) *)

\* the first request of the session is out: the canned initial prompt
InitialPromptSent == pc = "AWAITING_REPLY" /\ turn.sent = <<<<"initial_prompt">>>>

----------------------------------------------------------------------------
(* Claims about errors in the session (SpecCli) *)

\* C22: when a write fails while a reply is processed, the session goes on:
\* the process has not exited, the session awaits the next input, and the
\* ledger is the one process_ai_response left behind.
C22_WriteFailureContinues ==
    [][(pc = "AWAITING_REPLY" /\ raised')
        => /\ pc' = "AWAITING_INPUT"
           /\ exit_code' = <<>>
           /\ \A n \in RequiredNames : required_files[n] => required_files'[n]]_vars

\* C23: a mesh command that ends with a status other than zero ends
\* run_mesh() at once with an error that is reported: no later mesh command
\* has run, "Mesh generation complete!" has not been printed, and the
\* session has ended with the error.
C23_MeshFailurePropagates ==
    \A i \in 1..Len(turn.mesh.ran) :
        turn.mesh.ran[i][2] # "zero"
            => /\ i = Len(turn.mesh.ran)
               /\ turn.mesh.raised
               /\ ~turn.mesh.complete
               /\ turn.error # ""
               /\ turn.reported = ErrorReport(turn.error)

----------------------------------------------------------------------------
(* Claims about what main() touches (SpecCli) *)

\* C24: when main() ends with a configuration error (no credential, or a
\* solver id that is not registered) nothing has been mutated: the directory
\* tree and the files are as before, no request has been sent, no managers
\* have been constructed and OPENAI_API_KEY of the environment is unchanged.
C24_ConfigErrorMutatesNothing ==
    [][(/\ pc = "main"
        /\ ~InvalidPath /\ ~args.list_solvers /\ ~NoCaseDir
        /\ (NoCredential \/ UnknownSolver))
        => /\ pc' = "EXITED"
           /\ dirs' = dirs
           /\ files' = files
           /\ turn'.sent = <<>>
           /\ ~managers'
           /\ env' = env]_vars

----------------------------------------------------------------------------
(* SpecLedger: one DictionaryManager whose two methods are called in any    *)
(* order: process_ai_response on replies with ledger keys, a name outside   *)
(* the ledger and unnamed blocks, and get_missing_required_files            *)

\* the declarations of the blocks of a reply: consecutive entries of this list
LedgerDeclOrder == RequiredOrder \o <<"transportProperties", NoDecl>>

\* the replies: up to MaxBlocks blocks
LedgerReplies ==
    {[j \in 1..k |-> [tag |-> solver_name, decl |-> LedgerDeclOrder[i + j - 1],
                      body |-> 1]] :
        <<i, k>> \in {w \in (1..Len(LedgerDeclOrder)) \X (0..MaxBlocks) :
                        w[1] + w[2] - 1 <= Len(LedgerDeclOrder)}}

LedgerInputs ==
    {[response |-> Render(r), dictionaries |-> extract_dictionaries(Render(r))] :
        r \in LedgerReplies}

InitLedger ==
    /\ required_files = FreshLedger
    /\ written_files = {}
    /\ files = <<>>
    /\ raised = FALSE
    /\ committed = {}
    /\ reply = <<>>
    /\ dictionaries = <<>>
    /\ phase = "ledger"
    /\ call = NoCall
    /\ latest = <<>>
    /\ AppIdle

\* DictionaryManager.process_ai_response(input.response); call keeps how many
\* blocks the extractor returned
ProcessResponse ==
    \E input \in LedgerInputs :
    \E failAt \in 0..Len(input.dictionaries) :
        LET st == process_ai_response(required_files, written_files, files,
                                      input.dictionaries, failAt)
        IN /\ required_files' = st.required_files
           /\ written_files' = st.written_files
           /\ files' = st.files
           /\ raised' = st.raised
           /\ call' = [op |-> "process_ai_response",
                       extracted |-> Len(input.dictionaries)]
           /\ UNCHANGED <<committed, reply, dictionaries, phase, latest>>
           /\ UNCHANGED appvars

\* DictionaryManager.get_missing_required_files(): the method reads
\* required_files and returns a new list; call keeps the list, and the list
\* of the call before it when no other call came in between
GetMissingRequiredFiles ==
    /\ call' = [op |-> "get_missing_required_files",
                result |-> get_missing_required_files(required_files),
                previous |-> IF call.op = "get_missing_required_files"
                             THEN <<call.result>> ELSE <<>>]
    /\ raised' = FALSE
    /\ UNCHANGED <<required_files, written_files, files, committed, reply,
                   dictionaries, phase, latest>>
    /\ UNCHANGED appvars

NextLedger == ProcessResponse \/ GetMissingRequiredFiles

SpecLedger == InitLedger /\ [][NextLedger]_vars

----------------------------------------------------------------------------
(* Claims about the manager's two records and its missing list (SpecLedger) *)

\* the names of the files on disk: those whose write succeeded
NamesOnDisk == {q[2] : q \in DOMAIN files}

\* C25: after any sequence of process_ai_response calls written_files is
\* exactly the set of the names whose write succeeded, required or not; a
\* ledger key is flagged true if and only if it is in written_files; and no
\* call removes a name from written_files.
C25_WrittenFilesExact ==
    [][/\ written_files' = NamesOnDisk'
       /\ \A n \in RequiredNames : required_files'[n] <=> n \in written_files'
       /\ written_files \subseteq written_files']_vars

\* a ledger key and a name outside the ledger have been written, and a later
\* call ended on a failed write
C25_Witness ==
    /\ raised
    /\ "transportProperties" \in written_files
    /\ "controlDict" \in written_files
    /\ required_files["controlDict"]
    /\ written_files = NamesOnDisk

\* the order in which the missing list names the requirements
MissingOrder == <<"controlDict", "fvSchemes", "fvSolution", MeshPair, "U", "p">>

\* s is o with entries left out
RECURSIVE IsSubsequence(_, _)
IsSubsequence(s, o) ==
    IF s = <<>> THEN TRUE
    ELSE IF o = <<>> THEN FALSE
    ELSE IF Head(s) = Head(o) THEN IsSubsequence(Tail(s), Tail(o))
    ELSE IsSubsequence(s, Tail(o))

\* C26: the list get_missing_required_files() returns is a subsequence of
\* [controlDict, fvSchemes, fvSolution, "blockMeshDict or snappyHexMeshDict",
\* U, p] without duplicates, and a call that follows another call with no
\* process_ai_response in between returns the same list.
C26_MissingListOrdered ==
    call.op = "get_missing_required_files"
        => /\ IsSubsequence(call.result, MissingOrder)
           /\ \A n \in Elems(call.result) : Count(call.result, n) = 1
           /\ call.previous # <<>> => call.previous[1] = call.result

\* two calls in a row on a ledger with fvSchemes alone written: both return
\* controlDict, fvSolution and the combined mesh entry
C26_Witness ==
    /\ call.op = "get_missing_required_files"
    /\ call.previous = <<call.result>>
    /\ call.result = <<"controlDict", "fvSolution", MeshPair>>
    /\ required_files["fvSchemes"]

\* C29: get_missing_required_files() returns the empty list if and only if
\* controlDict, fvSchemes, fvSolution, U and p are flagged true and at least
\* one of blockMeshDict and snappyHexMeshDict is.
C29_EmptyIffComplete ==
    call.op = "get_missing_required_files"
        => (call.result = <<>> <=> LedgerComplete(required_files))

\* the call returned the empty list on a ledger with snappyHexMeshDict alone
\* of the mesh pair
C29_Witness ==
    /\ call.op = "get_missing_required_files"
    /\ call.result = <<>>
    /\ LedgerComplete(required_files)
    /\ ~required_files["blockMeshDict"]

\* C30: get_missing_required_files() changes neither required_files nor
\* written_files nor a file on disk; process_ai_response on a reply from
\* which no named block is extracted writes no file and leaves required_files
\* and written_files unchanged; and the keys of the ledger are the same seven
\* names in every state.
C30_ManagerFrame ==
    [][/\ call'.op = "get_missing_required_files"
            => UNCHANGED <<required_files, written_files, files>>
       /\ (call'.op = "process_ai_response" /\ call'.extracted = 0)
            => (UNCHANGED <<required_files, written_files, files>> /\ ~raised')
       /\ DOMAIN required_files' = RequiredNames
       /\ Cardinality(RequiredNames) = 7]_vars

\* a reply without a named block was processed by a manager that had written
\* a ledger key and a name outside the ledger
C30_Witness ==
    /\ call.op = "process_ai_response"
    /\ call.extracted = 0
    /\ written_files = {"p", "transportProperties"}
    /\ DOMAIN required_files = RequiredNames

----------------------------------------------------------------------------
(* SpecConversation: one OpenAIConversationManager and its get_response    *)
(* calls; a call ends with the reply of the completion API or with the     *)
(* exception the API call raised                                           *)

\* get_response calls of one manager
MaxCalls == 3

SystemMessage == [role |-> "system", content |-> "system_prompt"]
UserMessage(content) == [role |-> "user", content |-> content]
AssistantMessage(content) == [role |-> "assistant", content |-> content]

\* what client.chat.completions.create meets: the call raises, or it returns a
\* completion with this content
ApiRaises == "<raises>"
Completions == {"reply A", "reply B"}
ApiOutcomes == Completions \cup {ApiRaises}

\* the texts handed to get_response
UserTexts == {"initial_prompt", "use a finer mesh"}

\* get_response that sends the new user message alone
get_response_stateless(msgs, user_input, outcome) ==
    LET sent == Append(msgs, UserMessage(user_input))
    IN IF outcome = ApiRaises
       THEN [messages |-> sent, request |-> <<UserMessage(user_input)>>,
             raised |-> TRUE, result |-> ""]
       ELSE [messages |-> Append(sent, AssistantMessage(outcome)),
             request |-> <<UserMessage(user_input)>>,
             raised |-> FALSE, result |-> outcome]

\* get_response that takes the user message back when the API call raises
get_response_rollback(msgs, user_input, outcome) ==
    LET sent == Append(msgs, UserMessage(user_input))
    IN IF outcome = ApiRaises
       THEN [messages |-> msgs, request |-> sent, raised |-> TRUE, result |-> ""]
       ELSE [messages |-> Append(sent, AssistantMessage(outcome)), request |-> sent,
             raised |-> FALSE, result |-> outcome]

\* OpenAIConversationManager.get_response(user_input) on the history msgs:
\* line 11 appends the user message, lines 13-17 send self.messages, lines
\* 19-20 append the content of the completion.  request is the messages
\* argument of the API call, result the value returned
get_response(msgs, user_input, outcome) ==
    LET sent == Append(msgs, UserMessage(user_input))
    IN IF outcome = ApiRaises
       THEN [messages |-> sent, request |-> sent, raised |-> TRUE, result |-> ""]
       ELSE [messages |-> Append(sent, AssistantMessage(outcome)), request |-> sent,
             raised |-> FALSE, result |-> outcome]

InitConversation ==
    /\ messages = <<SystemMessage>>
    /\ call = NoCall
    /\ raised = FALSE
    /\ phase = "conversation"
    /\ required_files = FreshLedger
    /\ written_files = {}
    /\ files = <<>>
    /\ committed = {}
    /\ reply = <<>>
    /\ dictionaries = <<>>
    /\ latest = <<>>
    /\ dirs = PopulatedDirs
    /\ registry = RegisteredAtImport
    /\ pc = "idle"
    /\ args = NoArgs
    /\ env = "sk-env"
    /\ turn = NoTurn
    /\ exit_code = <<>>
    /\ managers = TRUE

\* one get_response call; call keeps its argument, the request it sent, its
\* result and how many calls were made before it
GetResponse ==
    /\ (IF call.op = "get_response" THEN call.n ELSE 0) < MaxCalls
    /\ \E user_input \in UserTexts, outcome \in ApiOutcomes :
         LET r == get_response(messages, user_input, outcome)
         IN /\ messages' = r.messages
            /\ raised' = r.raised
            /\ call' = [op |-> "get_response", user_input |-> user_input,
                        request |-> r.request, result |-> r.result,
                        n |-> (IF call.op = "get_response" THEN call.n ELSE 0) + 1]
    /\ UNCHANGED <<required_files, written_files, files, committed, reply,
                   dictionaries, phase, latest, dirs, registry, pc, args, env,
                   turn, exit_code, managers>>

NextConversation == GetResponse

SpecConversation == InitConversation /\ [][NextConversation]_vars

----------------------------------------------------------------------------
(* Claims about the turn history (SpecConversation) *)

\* the history is the system prompt followed by (user, assistant) pairs
Alternates(msgs) ==
    /\ Len(msgs) % 2 = 1
    /\ msgs[1] = SystemMessage
    /\ \A i \in 2..Len(msgs) :
          msgs[i].role = (IF i % 2 = 0 THEN "user" ELSE "assistant")

\* msgs is the beginning of longer
IsPrefix(msgs, longer) ==
    /\ Len(msgs) <= Len(longer)
    /\ \A i \in 1..Len(msgs) : longer[i] = msgs[i]

\* C27: no get_response call removes or reorders a message; a successful
\* call sends the whole history up to and with the new user message and adds
\* to the history the user message and the assistant message of its reply,
\* in this order; so while every call has succeeded the history is the
\* system prompt followed by one (user, assistant) pair per call.
C27_OrderedHistory ==
    [][/\ IsPrefix(messages, messages')
       /\ call'.request = Append(messages, UserMessage(call'.user_input))
       /\ ~raised'
            => /\ messages' = messages \o <<UserMessage(call'.user_input),
                                            AssistantMessage(call'.result)>>
               /\ Alternates(messages) => (Alternates(messages')
                                           /\ Len(messages') = Len(messages) + 2)]_vars

\* three calls have succeeded: the history is the system prompt and three
\* pairs, and the last request carried all of it but the last reply
C27_Witness ==
    /\ call.op = "get_response"
    /\ call.n = 3
    /\ Len(messages) = 7
    /\ Alternates(messages)
    /\ call.request = SubSeq(messages, 1, 6)

\* C28: when the API call of get_response fails the call raises, the user
\* message stays in the history and no assistant message is added; the
\* request of the next call then ends with two user messages and the
\* history does not alternate between user and assistant any more.
C28_FailedCallKeepsUserMessage ==
    [][/\ raised'
            => /\ messages' = Append(messages, UserMessage(call'.user_input))
               /\ call'.result = ""
       /\ raised
            => /\ call'.request[Len(messages)].role = "user"
               /\ call'.request[Len(messages) + 1].role = "user"
               /\ ~Alternates(messages')]_vars

\* a call failed and the next call succeeded: the history holds two user
\* messages in a row before the assistant message
C28_Witness ==
    /\ call.op = "get_response"
    /\ ~raised
    /\ Len(messages) = 4
    /\ messages[2].role = "user"
    /\ messages[3].role = "user"
    /\ messages[4].role = "assistant"
    /\ call.request = SubSeq(messages, 1, 3)

====
